---- MODULE Spec2Model ----
(***************************************************************************)
(* A model of the code segmentation and example-extraction engine:         *)
(*   src/chunker.py                 CircuitPythonChunker                   *)
(*   src/stubs_example_extractor.py StubExampleExtractor                   *)
(*                                                                         *)
(* Text.  A Python str is modelled as a sequence of lexemes.  A lexeme is  *)
(* either one character ("\n", " ", "#", "=", ...) or an indivisible run   *)
(* of characters (a keyword with its trailing blank, an identifier, a      *)
(* long run of identifier characters).  TokLen gives the number of         *)
(* characters a lexeme stands for, so that len() is the sum of the         *)
(* lexemes' lengths.  Only " " and "\n" are whitespace.                    *)
(*                                                                         *)
(* Option.  None is <<>> and a present value v is <<v>>.                   *)
(***************************************************************************)
EXTENDS Integers, Sequences, FiniteSets, TLC

VARIABLES
    pc,                 \* position of the driver: "idle" before a call, "done" after
    chunker,            \* the CircuitPythonChunker instance: [chunk_size_limit]
    call,               \* the operation applied last and its arguments
    ret,                \* what that operation returned
    processed_chunks,   \* the output accumulator of chunker.py's __main__
    log                 \* the calls made so far, each with its arguments and result

vars == <<pc, chunker, call, ret, processed_chunks, log>>

---------------------------------------------------------------------------
(* Bounds of the model *)

MaxBlocks == 3
MaxSections == 3
MaxCalls == 2
MaxDedentLines == 3
MaxSetupLines == 3
MaxScanLines == 2
MaxKindBlocks == 3
MaxContextLines == 7

---------------------------------------------------------------------------
(* Python str primitives over lexeme sequences *)

Min(S) == CHOOSE x \in S : \A y \in S : x <= y
Max(S) == CHOOSE x \in S : \A y \in S : x >= y

NL == "\n"
SP == " "
Run998 == "z998"
Run499 == "z499"

TokLen(t) ==
    CASE t = Run998 -> 998
      [] t = Run499 -> 499
      [] t \in {"::", "a1", "a2", "a3", "a4", "a5", "a6",
                 "b1", "b2", "b3", "b4", "b5", "b6"} -> 2
      [] t \in {"if ", "led", "LED", "pin", "an", "\"\"\""} -> 3
      [] t \in {"def ", "pass", "More"} -> 4
      [] t \in {"board", "usage"} -> 5
      [] t \in {"async ", "class ", "board.", "Blinks"} -> 6
      [] t \in {"import ", "Example", "example"} -> 7
      [] t \in {"neopixel", "Context:"} -> 8
      [] t \in {"Documentation"} -> 13
      [] t \in {"Documentation:", "Usage example:"} -> 14
      [] t \in {"Related imports:"} -> 16
      [] t \in {".. code-block:: python"} -> 22
      [] OTHER -> 1

IsSpace(t) == t \in {SP, NL}

RECURSIVE PyLen(_)
PyLen(s) == IF s = <<>> THEN 0 ELSE TokLen(Head(s)) + PyLen(Tail(s))

lstrip(s) ==
    LET ns == {i \in 1..Len(s) : ~IsSpace(s[i])}
    IN  IF ns = {} THEN <<>> ELSE SubSeq(s, Min(ns), Len(s))

strip(s) ==
    LET ns == {i \in 1..Len(s) : ~IsSpace(s[i])}
    IN  IF ns = {} THEN <<>> ELSE SubSeq(s, Min(ns), Max(ns))

\* p in s, for strs
contains(s, p) ==
    \E i \in 0..(Len(s) - Len(p)) : SubSeq(s, i + 1, i + Len(p)) = p

RECURSIVE split_nl(_)
split_nl(s) ==
    LET nl == {i \in 1..Len(s) : s[i] = NL}
    IN  IF nl = {} THEN <<s>>
        ELSE <<SubSeq(s, 1, Min(nl) - 1)>>
                 \o split_nl(SubSeq(s, Min(nl) + 1, Len(s)))

RECURSIVE join(_, _)
join(sep, parts) ==
    IF parts = <<>> THEN <<>>
    ELSE IF Len(parts) = 1 THEN parts[1]
    ELSE parts[1] \o sep \o join(sep, Tail(parts))

\* re.split(r'\n\s*\n', s): the leftmost "\n" that is followed, after
\* whitespace only, by another "\n"; \s* is greedy, so the match runs to the
\* last "\n" of that whitespace run.
RECURSIVE re_split_blank(_)
re_split_blank(s) ==
    LET closes(i) == {j \in (i + 1)..Len(s) :
                         s[j] = NL /\ \A k \in (i + 1)..(j - 1) : IsSpace(s[k])}
        starts == {i \in 1..Len(s) : s[i] = NL /\ closes(i) # {}}
    IN  IF starts = {} THEN <<s>>
        ELSE LET i == Min(starts)
                 j == Max(closes(i))
             IN  <<SubSeq(s, 1, i - 1)>>
                     \o re_split_blank(SubSeq(s, j + 1, Len(s)))

None == <<>>
Some(v) == <<v>>
\* Python truthiness of an optional str: None and "" are falsy
Truthy(opt) == opt # None /\ opt[1] # <<>>

\* (variant) a merge in which the input's value wins on a clash
WithInputFirst(metadata, key, value) == metadata @@ (key :> value)

\* {**metadata, key: value}
With(metadata, key, value) == (key :> value) @@ metadata

---------------------------------------------------------------------------
(* CircuitPythonChunker *)

chunk_size_limit == 1000

\* __init__
CircuitPythonChunker == [chunk_size_limit |-> chunk_size_limit]

\* (variant) a call that uses up the instance's size budget
SelfAfterCallSpent(self) == [self EXCEPT !.chunk_size_limit = 0]

\* the instance after one of its methods has run: no method assigns to self
SelfAfterCall(self) == self

Chunk(content, metadata) == [content |-> content, metadata |-> metadata]

SimpleChunk(current_chunk, metadata) ==
    Chunk(strip(current_chunk), With(metadata, "chunk_type", "simple"))

\* the for loop of _simple_chunk: returns the buffer and the chunks so far
RECURSIVE simple_pack(_, _, _, _, _)
simple_pack(self, sections, metadata, current_chunk, chunks) ==
    IF sections = <<>> THEN [current_chunk |-> current_chunk, chunks |-> chunks]
    ELSE LET section == Head(sections)
         IN  IF PyLen(current_chunk) + PyLen(section) < self.chunk_size_limit
             THEN simple_pack(self, Tail(sections), metadata,
                              current_chunk \o section \o <<NL, NL>>, chunks)
             ELSE simple_pack(self, Tail(sections), metadata,
                              section \o <<NL, NL>>,
                              IF current_chunk # <<>>
                              THEN Append(chunks, SimpleChunk(current_chunk, metadata))
                              ELSE chunks)

FallbackDocChunk(metadata, docstring_content) ==
    Chunk(<<"#", SP, "Documentation", NL, NL>> \o docstring_content[1],
          With(metadata, "chunk_type", "documentation"))

\* the flush after the loop of _simple_chunk
LastChunkDropped(r, metadata) == r.chunks

LastChunk(r, metadata) ==
    IF r.current_chunk # <<>>
    THEN Append(r.chunks, SimpleChunk(r.current_chunk, metadata))
    ELSE r.chunks

_simple_chunk(self, file_content, metadata, docstring_content) ==
    LET sections == re_split_blank(file_content)
        chunks0 == IF Truthy(docstring_content)
                   THEN <<FallbackDocChunk(metadata, docstring_content)>>
                   ELSE <<>>
    IN  LastChunk(simple_pack(self, sections, metadata, <<>>, chunks0), metadata)

---------------------------------------------------------------------------
(* ast: the subset of Python the model's files are written in.               *)
(* One statement per line:  import N | T = E | E | pass | """text"""        *)
(* (which may run over several lines) and the block headers  def N(): |      *)
(* async def N(): | class N: | if N:  followed by a deeper-indented block.  *)
(* E is  atom | board.N | N().  A tree is the sequence of its statement     *)
(* nodes in source order, each with the index of its parent (0: the module).*)

TQ == "\"\"\""

Idents == {"x", "y", "f", "g", "h", "A", "B", "led", "LED", "pin", "neopixel",
           "a1", "a2", "a3", "a4", "a5", "a6", "b1", "b2", "b3", "b4", "b5", "b6",
           Run998, Run499}
Atoms == Idents \cup {"0", "1"}

IsExpr(e) ==
    \/ Len(e) = 1 /\ e[1] \in Atoms
    \/ Len(e) = 2 /\ e[1] = "board." /\ e[2] \in Idents
    \/ Len(e) = 3 /\ e[1] \in Idents /\ e[2] = "(" /\ e[3] = ")"

Node(type, name, value) ==
    [type |-> type, name |-> name, value |-> value, parent |-> 0, line |-> 0]

NoStmt == [ok |-> FALSE, header |-> FALSE, node |-> Node("Error", "", <<>>)]
Stmt(header, node) == [ok |-> TRUE, header |-> header, node |-> node]

\* the part of a line before its comment, without trailing whitespace
CodeOf(body) ==
    LET hs == {i \in 1..Len(body) : body[i] = "#"}
        cut == IF hs = {} THEN body ELSE SubSeq(body, 1, Min(hs) - 1)
        ns == {i \in 1..Len(cut) : ~IsSpace(cut[i])}
    IN  IF ns = {} THEN <<>> ELSE SubSeq(cut, 1, Max(ns))

\* one simple statement or block header, from the code of a line
ParseStmt(c) ==
    LET eq == {i \in 1..Len(c) : c[i] = "="}
        noSp(e) == SelectSeq(e, LAMBDA t : t # SP)
    IN  IF c = <<"pass">> THEN Stmt(FALSE, Node("Pass", "", <<>>))
        ELSE IF Len(c) = 2 /\ c[1] = "import " /\ c[2] \in Idents \cup {"board"}
        THEN Stmt(FALSE, Node("Import", c[2], <<>>))
        ELSE IF Len(c) = 5 /\ c[1] = "def " /\ c[2] \in Idents
                /\ SubSeq(c, 3, 5) = <<"(", ")", ":">>
        THEN Stmt(TRUE, Node("FunctionDef", c[2], <<>>))
        ELSE IF Len(c) = 6 /\ c[1] = "async " /\ c[2] = "def " /\ c[3] \in Idents
                /\ SubSeq(c, 4, 6) = <<"(", ")", ":">>
        THEN Stmt(TRUE, Node("AsyncFunctionDef", c[3], <<>>))
        ELSE IF Len(c) = 3 /\ c[1] = "class " /\ c[2] \in Idents /\ c[3] = ":"
        THEN Stmt(TRUE, Node("ClassDef", c[2], <<>>))
        ELSE IF Len(c) = 3 /\ c[1] = "if " /\ c[2] \in Idents /\ c[3] = ":"
        THEN Stmt(TRUE, Node("If", c[2], <<>>))
        ELSE IF eq # {}
        THEN LET i == Min(eq)
                 target == noSp(SubSeq(c, 1, i - 1))
                 value == noSp(SubSeq(c, i + 1, Len(c)))
             IN  IF Len(target) = 1 /\ target[1] \in Idents /\ IsExpr(value)
                 THEN Stmt(FALSE, Node("Assign", target[1], value))
                 ELSE NoStmt
        ELSE IF IsExpr(c) THEN Stmt(FALSE, Node("Expr", "", c))
        ELSE NoStmt

Indent(line) == Len(line) - Len(lstrip(line))

\* The statements of lines[i..], given the stack of open blocks (each the
\* indentation of its statements and the node that heads it), whether the
\* statement before was a block header, and the nodes so far.
RECURSIVE parse_lines(_, _, _, _, _)
parse_lines(lines, i, stack, expect, nodes) ==
    IF i > Len(lines)
    THEN IF expect THEN [ok |-> FALSE, nodes |-> <<>>]
                   ELSE [ok |-> TRUE, nodes |-> nodes]
    ELSE
    LET line == lines[i]
        body == lstrip(line)
        d == Indent(line)
        top == stack[Len(stack)]
        fits == {k \in 1..Len(stack) : stack[k].indent = d}
        \* the block stack once a statement at indentation d is placed
        placed == IF expect
                  THEN IF d > top.indent
                       THEN Append(stack, [indent |-> d, header |-> Len(nodes)])
                       ELSE <<>>
                  ELSE IF fits = {} THEN <<>>
                       ELSE SubSeq(stack, 1, Max(fits))
        place(node) == [node EXCEPT !.parent = placed[Len(placed)].header,
                                    !.line = i - 1]
        fail == [ok |-> FALSE, nodes |-> <<>>]
    IN  IF body = <<>> \/ body[1] = "#"
        THEN parse_lines(lines, i + 1, stack, expect, nodes)
        ELSE IF placed = <<>> THEN fail
        ELSE IF body[1] = TQ
        THEN LET rest == Tail(body)
                 same == {p \in 1..Len(rest) : rest[p] = TQ}
                 later == {j \in (i + 1)..Len(lines) : contains(lines[j], <<TQ>>)}
             IN  IF same # {}
                 THEN LET p == Min(same)
                      IN  IF CodeOf(SubSeq(rest, p + 1, Len(rest))) # <<>> THEN fail
                          ELSE parse_lines(lines, i + 1, placed, FALSE,
                                   Append(nodes,
                                       place(Node("Str", "", SubSeq(rest, 1, p - 1)))))
                 ELSE IF later = {} THEN fail
                 ELSE LET j == Min(later)
                          q == Min({p \in 1..Len(lines[j]) : lines[j][p] = TQ})
                          text == join(<<NL>>, <<rest>> \o SubSeq(lines, i + 1, j - 1)
                                                   \o <<SubSeq(lines[j], 1, q - 1)>>)
                      IN  IF CodeOf(SubSeq(lines[j], q + 1, Len(lines[j]))) # <<>>
                          THEN fail
                          ELSE parse_lines(lines, j + 1, placed, FALSE,
                                   Append(nodes, place(Node("Str", "", text))))
        ELSE LET s == ParseStmt(CodeOf(body))
             IN  IF ~s.ok THEN fail
                 ELSE parse_lines(lines, i + 1, placed, s.header,
                                  Append(nodes, place(s.node)))

\* ast.parse(source): [ok |-> FALSE] stands for SyntaxError
ast_parse(source) ==
    parse_lines(split_nl(source), 1, <<[indent |-> 0, header |-> 0]>>, FALSE, <<>>)

\* node.body (tree.body for k = 0): the indices of the statements of block k
BodyOf(tree, k) ==
    SelectSeq([n \in 1..Len(tree) |-> n], LAMBDA n : tree[n].parent = k)

RECURSIVE Depth(_, _)
Depth(tree, k) == IF k = 0 THEN 0 ELSE 1 + Depth(tree, tree[k].parent)

Spaces(n) == [i \in 1..n |-> SP]

\* ast.unparse(node): canonical text, blocks indented by 4 per level,
\* comments and blank lines gone
RECURSIVE unparse_at(_, _, _)
unparse_at(tree, k, level) ==
    LET n == tree[k]
        block == BodyOf(tree, k)
        RECURSIVE kids(_)
        kids(b) == IF b = <<>> THEN <<>>
                   ELSE <<NL>> \o Spaces(4 * (level + 1))
                            \o unparse_at(tree, Head(b), level + 1) \o kids(Tail(b))
    IN  CASE n.type = "Import" -> <<"import ", n.name>>
          [] n.type = "Assign" -> <<n.name, SP, "=", SP>> \o n.value
          [] n.type = "Expr" -> n.value
          [] n.type = "Str" -> <<TQ>> \o n.value \o <<TQ>>
          [] n.type = "Pass" -> <<"pass">>
          [] n.type = "FunctionDef" ->
                 <<"def ", n.name, "(", ")", ":">> \o kids(block)
          [] n.type = "AsyncFunctionDef" ->
                 <<"async ", "def ", n.name, "(", ")", ":">> \o kids(block)
          [] n.type = "ClassDef" -> <<"class ", n.name, ":">> \o kids(block)
          [] n.type = "If" -> <<"if ", n.name, ":">> \o kids(block)

ast_unparse(tree, k) == unparse_at(tree, k, 0)

\* inspect.cleandoc(doc), which ast.get_docstring applies
cleandoc(doc) ==
    LET lines == split_nl(doc)
        rest == {i \in 2..Len(lines) : lstrip(lines[i]) # <<>>}
        margin == IF rest = {} THEN 0 ELSE Min({Indent(lines[i]) : i \in rest})
        cut(l) == IF Len(l) <= margin THEN <<>> ELSE SubSeq(l, margin + 1, Len(l))
        out == [i \in 1..Len(lines) |-> IF i = 1 THEN lstrip(lines[1])
                                         ELSE cut(lines[i])]
        full == {i \in 1..Len(out) : out[i] # <<>>}
    IN  IF full = {} THEN <<>>
        ELSE join(<<NL>>, SubSeq(out, Min(full), Max(full)))

\* ast.get_docstring(node), k = 0 for the module: None or the cleaned text
ast_get_docstring(tree, k) ==
    LET block == BodyOf(tree, k)
    IN  IF block # <<>> /\ tree[block[1]].type = "Str"
        THEN Some(cleandoc(tree[block[1]].value))
        ELSE None

---------------------------------------------------------------------------
(* CircuitPythonChunker: the structural path *)

\* _extract_imports(tree)
_extract_imports(tree) ==
    LET tops == SelectSeq(BodyOf(tree, 0), LAMBDA k : tree[k].type = "Import")
    IN  [i \in 1..Len(tops) |-> ast_unparse(tree, tops[i])]

\* _create_documentation_chunk(docstring_content, imports, metadata);
\* docstring_content is the str itself here
_create_documentation_chunk(docstring_content, imports, metadata) ==
    LET head == <<"#", SP, "Documentation", NL, NL>> \o docstring_content \o <<NL, NL>>
        listed == [i \in 1..Len(imports) |-> <<"#", SP>> \o imports[i]]
        doc_chunk == IF imports # <<>>
                     THEN head \o <<"#", SP, "Related imports:", NL>>
                              \o join(<<NL>>, listed)
                     ELSE head
    IN  Chunk(doc_chunk, With(metadata, "chunk_type", "documentation"))

\* whether the str name occurs in the lexeme t
NameInTok(name, t) ==
    \/ t = name
    \/ name = "f" /\ t \in {"def ", "if "}
    \/ name = "x" /\ t \in {"neopixel", "Example"}
    \/ name = "A" /\ t = ".AnalogIn"

\* function_name in line
NameIn(name, line) == \E i \in 1..Len(line) : NameInTok(name, line[i])

\* _find_usage_example(function_name, file_content): None or the snippet
_find_usage_example(function_name, file_content) ==
    LET lines == split_nl(file_content)
        hits == {i \in 1..Len(lines) :
                    NameIn(function_name, lines[i]) /\ ~contains(lines[i], <<"def ">>)}
    IN  IF hits = {} THEN None
        ELSE LET i == Min(hits) - 1      \* the 0-based index of the code
                 start == Max({0, i - 2})
                 end == Min({Len(lines), i + 3})
             IN  Some(join(<<NL>>, SubSeq(lines, start + 1, end)))

\* s.split('\n\n')[0]
FirstPara(s) ==
    LET cuts == {i \in 1..(Len(s) - 1) : s[i] = NL /\ s[i + 1] = NL}
    IN  IF cuts = {} THEN s ELSE SubSeq(s, 1, Min(cuts) - 1)

\* _create_function_chunk(func_node, file_content, imports, docstring_content)
_create_function_chunk(tree, func_node, file_content, imports, docstring_content) ==
    LET func_code == ast_unparse(tree, func_node)
        doc == ast_get_docstring(tree, func_node)
        description == IF Truthy(doc) THEN <<"#", SP>> \o doc[1] \o <<NL>> ELSE <<>>
        context_note == IF Truthy(docstring_content)
                        THEN <<"#", SP, "Context:", SP>>
                                 \o FirstPara(docstring_content[1]) \o <<NL, NL>>
                        ELSE <<>>
        chunk == join(<<NL>>, imports) \o <<NL, NL>> \o context_note
                     \o description \o func_code
        usage_example == _find_usage_example(tree[func_node].name, file_content)
    IN  IF Truthy(usage_example)
        THEN chunk \o <<NL, NL, "#", SP, "Usage example:", NL>> \o usage_example[1]
        ELSE chunk

circuitpython_keywords ==
    {"board.", "digitalio.", "analogio.", "busio.", "neopixel", "adafruit_",
     "microcontroller.", ".DigitalInOut", ".AnalogIn", ".PWMOut"}

\* _is_circuitpython_assignment(assignment_code)
_is_circuitpython_assignment(assignment_code) ==
    \E i \in 1..Len(assignment_code) : assignment_code[i] \in circuitpython_keywords

\* the "related setup" test of the backward scan, on a stripped line
IsSetupBefore(line) ==
    line # <<>> /\ (line[1] = "#" \/ contains(line, <<"=">>) \/ line[1] = "import ")

\* the "related setup" test of the forward scan, on a stripped line
IsSetupAfter(line) ==
    line # <<>> /\ (line[1] = "#" \/ contains(line, <<"=">>))

\* the forward scan of _get_assignment_context over the 0-based indices i..stop-1
RECURSIVE scan_forward(_, _, _)
scan_forward(lines, i, stop) ==
    IF i >= stop THEN <<>>
    ELSE LET line == strip(lines[i + 1])
         IN  IF IsSetupAfter(line)
             THEN <<lines[i + 1]>> \o scan_forward(lines, i + 1, stop)
             ELSE IF line = <<>> THEN scan_forward(lines, i + 1, stop)
             ELSE <<>>

\* range(target_line + 1, min(len(lines), target_line + 5)): its end
ForwardStop(n, target_line) == Min({n, target_line + 5})

\* range(max(0, target_line - 5), target_line): its start
BackwardStart(target_line) == Max({0, target_line - 5})

\* _get_assignment_context(assign_node, file_content)
_get_assignment_context(tree, assign_node, file_content) ==
    LET lines == split_nl(file_content)
        assignment_str == ast_unparse(tree, assign_node)
        found == {i \in 1..Len(lines) :
                     contains(strip(lines[i]), strip(assignment_str))}
    IN  IF found = {} THEN <<assignment_str>>
        ELSE LET target_line == Min(found) - 1     \* 0-based, as in the code
                 back == SelectSeq(
                             [k \in 1..(target_line - BackwardStart(target_line)) |->
                                  lines[BackwardStart(target_line) + k]],
                             LAMBDA l : IsSetupBefore(strip(l)))
             IN  back \o <<lines[target_line + 1]>>
                     \o scan_forward(lines, target_line + 1,
                                     ForwardStop(Len(lines), target_line))

\* (variant) an assignment whose re-serialized text is not in the file as
\* written is skipped
_create_assignment_chunk_literal(tree, assign_node, file_content, imports) ==
    LET assignment_code == ast_unparse(tree, assign_node)
    IN  IF /\ _is_circuitpython_assignment(assignment_code)
           /\ contains(file_content, assignment_code)
        THEN Some(join(<<NL>>, imports) \o <<NL, NL>>
                      \o join(<<NL>>, _get_assignment_context(tree, assign_node,
                                                              file_content)))
        ELSE None

\* _create_assignment_chunk(assign_node, file_content, imports): None or the chunk
_create_assignment_chunk(tree, assign_node, file_content, imports) ==
    LET assignment_code == ast_unparse(tree, assign_node)
        context_lines == _get_assignment_context(tree, assign_node, file_content)
    IN  IF _is_circuitpython_assignment(assignment_code) /\ context_lines # <<>>
        THEN Some(join(<<NL>>, imports) \o <<NL, NL>> \o join(<<NL>>, context_lines))
        ELSE None

\* isinstance(node, (ast.FunctionDef, ast.ClassDef))
IsFunctionOrClass(node) == node.type \in {"FunctionDef", "ClassDef"}

\* the loop "for node in tree.body" of chunk_python_file
RECURSIVE chunk_body(_, _, _, _, _, _)
chunk_body(tree, body, file_content, metadata, imports, docstring_content) ==
    IF body = <<>> THEN <<>>
    ELSE LET node == Head(body)
             rest == chunk_body(tree, Tail(body), file_content, metadata, imports,
                                docstring_content)
         IN  IF IsFunctionOrClass(tree[node])
             THEN LET chunk == _create_function_chunk(tree, node, file_content,
                                                      imports, docstring_content)
                  IN  IF chunk # <<>>
                      THEN <<Chunk(chunk,
                                   With(With(metadata, "chunk_type", "function"),
                                        "function_name", tree[node].name))>> \o rest
                      ELSE rest
             ELSE IF tree[node].type = "Assign"
             THEN LET chunk == _create_assignment_chunk(tree, node, file_content, imports)
                  IN  IF Truthy(chunk)
                      THEN <<Chunk(chunk[1], With(metadata, "chunk_type", "setup"))>>
                               \o rest
                      ELSE rest
             ELSE rest

\* s.replace("\n", "\n# ")
CommentLines(s) ==
    join(<<NL, "#", SP>>, split_nl(s))

\* the whole-file chunk of chunk_python_file
CompleteChunk(file_content, metadata, docstring_content) ==
    LET complete_content ==
            IF Truthy(docstring_content)
            THEN <<"#", SP, "Documentation:", NL, "#", SP>>
                     \o CommentLines(docstring_content[1]) \o <<NL, NL>> \o file_content
            ELSE file_content
    IN  Chunk(complete_content,
              With(With(metadata, "chunk_type", "complete_example"),
                   "includes_documentation", Truthy(docstring_content)))

\* (variant) a file of exactly the threshold length counts as short
ShortEnoughInclusive(self, file_content) == PyLen(file_content) <= self.chunk_size_limit

\* "if len(file_content) < self.chunk_size_limit"
ShortEnough(self, file_content) == PyLen(file_content) < self.chunk_size_limit

\* (variant) the whole-file chunk put first
StructuralChunksWholeFirst(self, tree, file_content, metadata, docstring_content) ==
    LET imports == _extract_imports(tree)
        doc == IF Truthy(docstring_content)
               THEN <<_create_documentation_chunk(docstring_content[1], imports, metadata)>>
               ELSE <<>>
        body == chunk_body(tree, BodyOf(tree, 0), file_content, metadata, imports,
                           docstring_content)
        whole == IF PyLen(file_content) < self.chunk_size_limit
                 THEN <<CompleteChunk(file_content, metadata, docstring_content)>>
                 ELSE <<>>
    IN  whole \o doc \o body

\* the try block of chunk_python_file, for a file that parsed
StructuralChunks(self, tree, file_content, metadata, docstring_content) ==
    LET imports == _extract_imports(tree)
        doc == IF Truthy(docstring_content)
               THEN <<_create_documentation_chunk(docstring_content[1], imports, metadata)>>
               ELSE <<>>
        body == chunk_body(tree, BodyOf(tree, 0), file_content, metadata, imports,
                           docstring_content)
        whole == IF ShortEnough(self, file_content)
                 THEN <<CompleteChunk(file_content, metadata, docstring_content)>>
                 ELSE <<>>
    IN  doc \o body \o whole

\* (variant) the whole-file chunk emitted outside the try block, so also
\* after a parse failure
chunk_python_file_mixed(self, file_content, metadata, docstring_content) ==
    LET parsed == ast_parse(file_content)
        whole == IF PyLen(file_content) < self.chunk_size_limit
                 THEN <<CompleteChunk(file_content, metadata, docstring_content)>>
                 ELSE <<>>
    IN  IF parsed.ok
        THEN StructuralChunks(self, parsed.nodes, file_content, metadata,
                              docstring_content)
        ELSE _simple_chunk(self, file_content, metadata, docstring_content) \o whole

\* chunk_python_file(file_content, metadata, docstring_content=None)
chunk_python_file(self, file_content, metadata, docstring_content) ==
    LET parsed == ast_parse(file_content)
    IN  IF parsed.ok
        THEN StructuralChunks(self, parsed.nodes, file_content, metadata,
                              docstring_content)
        ELSE _simple_chunk(self, file_content, metadata, docstring_content)

---------------------------------------------------------------------------
(* StubExampleExtractor *)

\* ast.walk(tree): breadth first, so by depth and, within a depth, in source
\* order; the result lists the indices of the statement nodes
RECURSIVE walk_level(_, _)
walk_level(tree, d) ==
    LET level == SelectSeq([n \in 1..Len(tree) |-> n], LAMBDA n : Depth(tree, n) = d)
    IN  IF level = <<>> THEN <<>> ELSE level \o walk_level(tree, d + 1)

ast_walk(tree) == walk_level(tree, 1)

\* _find_parent_class(tree, target_node): 0 stands for None
_find_parent_class(tree, target_node) ==
    LET order == ast_walk(tree)
        hits == {i \in 1..Len(order) :
                    /\ tree[order[i]].type = "ClassDef"
                    /\ \E b \in 1..Len(BodyOf(tree, order[i])) :
                           BodyOf(tree, order[i])[b] = target_node}
    IN  IF hits = {} THEN 0 ELSE order[Min(hits)]

\* _regex_extract_docstrings(content): the texts between the 1st and 2nd,
\* 3rd and 4th, ... triple quote
_regex_extract_docstrings(content) ==
    LET qs == SelectSeq([i \in 1..Len(content) |-> i], LAMBDA i : content[i] = TQ)
    IN  [m \in 1..(Len(qs) \div 2) |->
            <<SubSeq(content, qs[2 * m - 1] + 1, qs[2 * m] - 1), <<"regex_extracted">>>>]

\* the context label of a class or function node
ContextOf(tree, node) ==
    IF tree[node].type = "ClassDef" THEN <<"class:", tree[node].name>>
    ELSE LET parent == _find_parent_class(tree, node)
         IN  IF parent # 0
             THEN <<"method:", tree[parent].name, ".", tree[node].name>>
             ELSE <<"function:", tree[node].name>>

\* the loop "for node in ast.walk(tree)" of _extract_all_docstrings
WalkRecords(tree) ==
    LET picked == SelectSeq(ast_walk(tree),
                      LAMBDA n : /\ tree[n].type \in {"ClassDef", "FunctionDef",
                                                      "AsyncFunctionDef"}
                                 /\ Truthy(ast_get_docstring(tree, n)))
    IN  [i \in 1..Len(picked) |->
            <<ast_get_docstring(tree, picked[i])[1], ContextOf(tree, picked[i])>>]

\* the try block of _extract_all_docstrings: the walk is nested in
\* "if module_doc:"
ParsedDocstrings(tree) ==
    LET module_doc == ast_get_docstring(tree, 0)
    IN  IF Truthy(module_doc)
        THEN <<<<module_doc[1], <<"module">>>>>> \o WalkRecords(tree)
        ELSE <<>>

\* _extract_all_docstrings(stub_content): pairs <<docstring, context>>
_extract_all_docstrings(stub_content) ==
    LET parsed == ast_parse(stub_content)
    IN  IF parsed.ok THEN ParsedDocstrings(parsed.nodes)
        ELSE _regex_extract_docstrings(stub_content)

\* one iteration of (?:(?:[ ]{2,}.*|[ \t]*)(?:\n|$)) matches the line
LineInBlock(line) ==
    \/ \A i \in 1..Len(line) : line[i] = SP
    \/ Len(line) >= 2 /\ line[1] = SP /\ line[2] = SP

\* the index where ((?:(?:[ ]{2,}.*|[ \t]*)(?:\n|$))+), started at g, ends
RECURSIVE GroupEnd(_, _)
GroupEnd(s, g) ==
    IF g > Len(s) THEN Len(s)
    ELSE LET nls == {i \in g..Len(s) : s[i] = NL}
             le == IF nls = {} THEN Len(s) + 1 ELSE Min(nls)
         IN  IF ~LineInBlock(SubSeq(s, g, le - 1)) THEN g - 1
             ELSE IF le > Len(s) THEN Len(s)
             ELSE GroupEnd(s, le + 1)

\* whether the group can start at g: its first iteration matches there
GroupStarts(s, g) ==
    \/ g > Len(s)
    \/ LET nls == {i \in g..Len(s) : s[i] = NL}
           le == IF nls = {} THEN Len(s) + 1 ELSE Min(nls)
       IN  LineInBlock(SubSeq(s, g, le - 1))

\* where the block-start marker of a pattern matches: pairs <<first, last>>
MarkerAt(pattern_name, s) ==
    CASE pattern_name = "rst_double_colon" ->
             {<<i, i>> : i \in {i \in 1..Len(s) : s[i] = "::"}}
      [] pattern_name = "explicit_code_block" ->
             {<<i, i>> : i \in {i \in 1..Len(s) : s[i] = ".. code-block:: python"}}
      [] pattern_name = "example_section" ->
             {m \in (1..Len(s)) \X (1..Len(s)) :
                 /\ s[m[1]] \in {"Example", "example"}
                 /\ s[m[2]] = "::"
                 /\ \/ m[2] = m[1] + 1
                    \/ /\ m[2] >= m[1] + 3
                       /\ s[m[2] - 1] = "usage"
                       /\ \A k \in (m[1] + 1)..(m[2] - 2) : IsSpace(s[k])}

\* \s*\n\n and the group after a marker that ends at e: \s* takes as much as
\* still leaves "\n\n" and a first group iteration; 0 when there is no match,
\* else the index where the group starts
GroupAfter(s, e) ==
    LET ks == {k \in 0..(Len(s) - e - 2) :
                  /\ \A i \in (e + 1)..(e + k) : IsSpace(s[i])
                  /\ s[e + k + 1] = NL /\ s[e + k + 2] = NL
                  /\ GroupStarts(s, e + k + 3)}
    IN  IF ks = {} THEN 0 ELSE e + Max(ks) + 3

\* pattern.findall(docstring) from position pos on: the groups of the
\* non-overlapping matches, leftmost first
RECURSIVE findall_from(_, _, _)
findall_from(pattern_name, s, pos) ==
    LET ms == {m \in MarkerAt(pattern_name, s) : m[1] >= pos /\ GroupAfter(s, m[2]) # 0}
    IN  IF ms = {} THEN <<>>
        ELSE LET first == Min({m[1] : m \in ms})
                 m == CHOOSE m \in ms : m[1] = first
                 g == GroupAfter(s, m[2])
                 ge == GroupEnd(s, g)
             IN  <<SubSeq(s, g, ge)>> \o findall_from(pattern_name, s, ge + 1)

findall(pattern_name, docstring) == findall_from(pattern_name, docstring, 1)

\* the pattern list of extract_examples_from_stub, in its order
PatternNames == <<"rst_double_colon", "explicit_code_block", "example_section">>

\* (variant) blank-only input returned stripped
BlankOnlyStripped(indented_code) == strip(indented_code)

\* what _dedent_code returns when no line has content
BlankOnly(indented_code) == indented_code

\* _dedent_code(indented_code)
_dedent_code(indented_code) ==
    LET lines == split_nl(indented_code)
        non_empty_lines == SelectSeq(lines, LAMBDA line : strip(line) # <<>>)
        min_indent == Min({Indent(non_empty_lines[i]) : i \in 1..Len(non_empty_lines)})
        dedented_lines == [i \in 1..Len(lines) |->
                              IF strip(lines[i]) # <<>>
                              THEN SubSeq(lines[i], min_indent + 1, Len(lines[i]))
                              ELSE <<>>]
    IN  IF non_empty_lines = <<>> THEN BlankOnly(indented_code)
        ELSE strip(join(<<NL>>, dedented_lines))

\* (variant) one line of code is enough
EnoughCodeLinesOne(code_lines) == Len(code_lines) >= 1

\* "if len(code_lines) < 2: return False", as the condition to go on
EnoughCodeLines(code_lines) == Len(code_lines) >= 2

\* _is_valid_circuitpython_example(code)
_is_valid_circuitpython_example(code) ==
    LET code_lines == SelectSeq(split_nl(code),
                          LAMBDA line : strip(line) # <<>> /\ strip(line)[1] # "#")
    IN  EnoughCodeLines(code_lines) /\ ast_parse(code).ok

Example(code, metadata, pattern_name, context, i, j) ==
    [content |-> code,
     metadata |-> [k \in {"type", "source_type", "extraction_method", "context",
                          "example_index"} |->
                      CASE k = "type" -> "extracted_core_module_stubs"
                        [] k = "source_type" -> "stub_docstring"
                        [] k = "extraction_method" -> pattern_name
                        [] k = "context" -> context
                        [] k = "example_index" -> <<i, "_", j>>] @@ metadata]

\* the loop over the matches of one pattern in docstring i (0-based)
ExamplesOfPattern(docstring, context, metadata, i, pattern_name) ==
    LET matches == findall(pattern_name, docstring)
        valid == SelectSeq([j \in 1..Len(matches) |-> j],
                     LAMBDA j : _is_valid_circuitpython_example(_dedent_code(matches[j])))
    IN  [v \in 1..Len(valid) |->
            Example(_dedent_code(matches[valid[v]]), metadata, pattern_name, context,
                    i, valid[v] - 1)]

\* the loop over the patterns for docstring i
RECURSIVE ExamplesOfDocstring(_, _, _, _, _)
ExamplesOfDocstring(docstring, context, metadata, i, p) ==
    IF p > Len(PatternNames) THEN <<>>
    ELSE ExamplesOfPattern(docstring, context, metadata, i, PatternNames[p])
             \o ExamplesOfDocstring(docstring, context, metadata, i, p + 1)

\* the loop over the docstrings
RECURSIVE ExamplesFrom(_, _, _)
ExamplesFrom(docstrings, metadata, i) ==
    IF i > Len(docstrings) THEN <<>>
    ELSE ExamplesOfDocstring(docstrings[i][1], docstrings[i][2], metadata, i - 1, 1)
             \o ExamplesFrom(docstrings, metadata, i + 1)

\* (variant) a block already reported is not reported again
extract_examples_deduplicated(stub_content, metadata) ==
    LET all == ExamplesFrom(_extract_all_docstrings(stub_content), metadata, 1)
        keep == SelectSeq([k \in 1..Len(all) |-> k],
                    LAMBDA k : \A m \in 1..(k - 1) : all[m].content # all[k].content)
    IN  [v \in 1..Len(keep) |-> all[keep[v]]]

\* extract_examples_from_stub(stub_content, metadata)
extract_examples_from_stub(stub_content, metadata) ==
    ExamplesFrom(_extract_all_docstrings(stub_content), metadata, 1)

---------------------------------------------------------------------------
(* Inputs *)

Metadatas ==
    {[source |-> "a.py"],
     [source |-> "b.py", chunk_type |-> "mine", function_name |-> "theirs"]}

DocText == <<"Blinks", SP, "an", SP, "LED", ".">>
Docstrings == {None, Some(<<>>), Some(DocText \o <<NL, NL, "More", ".">>)}

\* the pieces raw text is put together from, for the Fallback Segmenter
FallbackPieces ==
    {<<>>, <<SP>>, <<"(">>, <<"x", "=", "1">>, <<Run499>>, <<Run998>>,
     <<Run998, "x", "x">>}
FallbackSeparators == {<<NL>>, <<NL, NL>>, <<NL, SP, NL>>}

RECURSIVE Glue(_, _)
Glue(pieces, seps) ==
    IF Len(pieces) = 1 THEN pieces[1]
    ELSE pieces[1] \o seps[1] \o Glue(Tail(pieces), Tail(seps))

\* the raw texts of up to n sections
FallbackTexts(n) ==
    {<<>>} \cup
    UNION {{Glue(p, s) : p \in [1..k -> FallbackPieces],
                         s \in [1..(k - 1) -> FallbackSeparators]}
           : k \in 1..n}

\* the blocks source files are put together from, for chunk_python_file
FileBlocks ==
    {<<>>,
     <<"#", SP, "c">>,
     <<"import ", "board">>,
     <<"led", SP, "=", SP, "board.", "LED">>,
     <<"x", "=", "1">>,
     <<"def ", "f", "(", ")", ":", NL, SP, "pass">>,
     <<"def ", "g", "(", ")", ":", NL, SP, TQ, "d", TQ>>,
     <<"async ", "def ", "h", "(", ")", ":", NL, SP, "pass">>,
     <<"class ", "A", ":", NL, SP, "pass">>,
     <<"f", "(", ")">>,
     <<SP, "pass">>,
     <<"(">>,
     <<Run998>>,
     <<"(", Run998>>}

FileTexts(n) ==
    {<<>>} \cup
    UNION {{join(<<NL>>, b) : b \in [1..k -> FileBlocks]} : k \in 1..n}

\* the documentation strings stub files carry, each as its lines, written
\* relative to the margin of the string
X1 == <<SP, SP, "x", SP, "=", SP, "1">>
Y1 == <<SP, SP, "y", SP, "=", SP, "1">>
DocBodies ==
    {<< <<"d">> >>,
     << <<>> >>,
     << <<"Example", "::">>, <<>>, X1, Y1 >>,
     << <<"d">>, <<"Example", "::">>, <<>>, X1, Y1 >>,
     << <<"d">>, <<"Example", SP, "usage", "::">>, <<>>, <<SP, SP>> \o X1, Y1 >>,
     << <<"d">>, <<"::">>, <<>>, <<SP, SP, "#", SP, "c">> >>,
     << <<"d">>, <<"d", "::">>, <<>>, X1 >>,
     << <<"d">>, <<"::">>, <<>>, X1, <<SP, SP, "(">> >>,
     << <<"d">>, <<"::">>, <<>>, X1, <<SP, SP, "#", SP, "c">> >>,
     << <<"d">>, <<"::">>, <<>>, <<SP, SP, "if ", "x", ":">>, <<SP, SP, SP, "y", "=", "1">> >>,
     << <<".. code-block:: python">>, <<>>, X1, <<>>, <<SP, SP, "f", "(", ")">>,
        <<"d">> >>}

NoDoc == <<>>
DocChoices == DocBodies \cup {NoDoc}

\* the lines of a documentation string placed at an indentation
DocAt(ind, body) ==
    IF body = NoDoc THEN <<>>
    ELSE IF Len(body) = 1 THEN << Spaces(ind) \o <<TQ>> \o body[1] \o <<TQ>> >>
    ELSE << Spaces(ind) \o <<TQ>> \o body[1] >>
             \o [i \in 1..(Len(body) - 1) |->
                    IF body[i + 1] = <<>> THEN <<>> ELSE Spaces(ind) \o body[i + 1]]
             \o << Spaces(ind) \o <<TQ>> >>

DefLine(ind, name) == Spaces(ind) \o <<"def ", name, "(", ")", ":">>
PassLine(ind) == Spaces(ind) \o <<"pass">>

\* the shapes of stub files: m, a, b are the documentation strings of the
\* module and of the declarations
StubLines(shape, m, a, b) ==
    CASE shape = "function" ->
             DocAt(0, m) \o <<DefLine(0, "f")>> \o DocAt(1, a) \o <<PassLine(1)>>
      [] shape = "async" ->
             DocAt(0, m) \o << <<"async ", "def ", "h", "(", ")", ":">> >>
                 \o DocAt(1, a) \o <<PassLine(1)>>
      [] shape = "broken" ->
             DocAt(0, m) \o <<DefLine(0, "f")>> \o DocAt(1, a) \o <<PassLine(1)>>
                 \o << <<"(">> >>
      [] shape = "conditional" ->
             DocAt(0, m) \o << <<"class ", "A", ":">>, <<SP, "if ", "x", ":">> >>
                 \o <<DefLine(2, "g")>> \o DocAt(3, a) \o <<PassLine(3)>>
      [] shape = "method" ->
             DocAt(0, m) \o << <<"class ", "A", ":">> >> \o DocAt(1, a)
                 \o <<DefLine(1, "g")>> \o DocAt(2, b) \o <<PassLine(2)>>
      [] shape = "nested" ->
             DocAt(0, m) \o <<DefLine(0, "f")>> \o DocAt(1, a)
                 \o <<DefLine(1, "g")>> \o DocAt(2, b) \o <<PassLine(2)>>
      [] shape = "order" ->
             DocAt(0, m) \o << <<"class ", "A", ":">> >>
                 \o <<DefLine(1, "g")>> \o DocAt(2, a) \o <<PassLine(2)>>
                 \o <<DefLine(0, "f")>> \o DocAt(1, b) \o <<PassLine(1)>>

StubTexts ==
    {join(<<NL>>, StubLines(shape, m, a, NoDoc)) :
        shape \in {"function", "async", "broken", "conditional"},
        m \in DocChoices, a \in DocChoices}
    \cup
    {join(<<NL>>, StubLines(shape, m, a, b)) :
        shape \in {"method", "nested", "order"},
        m \in DocChoices, a \in DocChoices, b \in DocChoices}

\* files with a block for every kind of chunk: an import, a matching
\* assignment, a function, a line that does not parse and a run that brings
\* the length to the size threshold
KindBlocks ==
    {<<>>,
     <<"import ", "board">>,
     <<"led", SP, "=", SP, "board.", "LED">>,
     <<"def ", "f", "(", ")", ":", NL, SP, "pass">>,
     <<"(">>,
     <<Run998>>}

KindFiles(n) ==
    {<<>>} \cup
    UNION {{join(<<NL>>, b) : b \in [1..k -> KindBlocks]} : k \in 1..n}

\* files for the setup chunks: assignments with and without an allow-list
\* keyword, written as ast.unparse writes them or more tightly, among
\* imports, comments, calls and a function with an assignment of its own
SetupBlocks ==
    {<<>>,
     <<"import ", "board">>,
     <<"led", SP, "=", SP, "board.", "LED">>,
     <<"pin", "=", "board.", "LED">>,
     <<"x", SP, "=", SP, "1">>,
     <<"neopixel", SP, "=", SP, "1">>,
     <<"#", SP, "c">>,
     <<"f", "(", ")">>,
     <<"def ", "f", "(", ")", ":", NL, SP, "led", SP, "=", SP, "board.", "LED">>}

SetupFiles(n) ==
    UNION {{join(<<NL>>, b) : b \in [1..k -> SetupBlocks]} : k \in 1..n}

\* the text blocks handed to the Indentation Normalizer
DedentLines ==
    {<<>>, <<SP>>, <<SP, SP>>, <<"a">>, <<SP, "a">>, <<SP, SP, "a">>, <<"a", SP>>}

DedentBlocks(n) ==
    UNION {{join(<<NL>>, b) : b \in [1..k -> DedentLines]} : k \in 1..n}

\* files for setup-context recovery: a matching assignment with up to 6
\* lines before it and up to 6 after it, every line with a name of its own
TargetLine == <<"led", SP, "=", SP, "board.", "LED">>
NamesBefore == <<"b1", "b2", "b3", "b4", "b5", "b6">>
NamesAfter == <<"a1", "a2", "a3", "a4", "a5", "a6">>
LineKinds == {"assign", "call", "blank"}

KindLine(kind, name) ==
    CASE kind = "assign" -> <<name, SP, "=", SP, "1">>
      [] kind = "call" -> <<name, "(", ")">>
      [] kind = "blank" -> <<>>
      [] kind = "import" -> <<"import ", name>>
      [] kind = "comment" -> <<"#", SP, name>>

ContextFile(before, after) ==
    join(<<NL>>, [i \in 1..Len(before) |-> KindLine(before[i], NamesBefore[i])]
                     \o <<TargetLine>>
                     \o [i \in 1..Len(after) |-> KindLine(after[i], NamesAfter[i])])

ContextShapes(n) == {s \in (0..6) \X (0..6) : s[1] + s[2] <= n}

ContextFiles(n) ==
    UNION {{ContextFile(b, a) : b \in [1..s[1] -> LineKinds], a \in [1..s[2] -> LineKinds]}
           : s \in ContextShapes(n)}

\* files for the two scans of setup-context recovery: up to MaxScanLines
\* lines on each side of the matching assignment, imports and comments among
\* them
ScanKinds == {"assign", "call", "blank", "import", "comment"}

ScanFiles(n) ==
    UNION {{ContextFile(b, a) : b \in [1..s[1] -> ScanKinds], a \in [1..s[2] -> ScanKinds]}
           : s \in (0..n) \X (0..n)}

---------------------------------------------------------------------------
(* Specification of the Fallback Segmenter called on its own *)

InitIdle ==
    /\ pc = "idle"
    /\ chunker = <<CircuitPythonChunker>>
    /\ call = [op |-> "none"]
    /\ ret = <<>>
    /\ processed_chunks = <<>>
    /\ log = <<>>

CallSimpleChunk ==
    /\ pc = "idle"
    /\ \E fc \in FallbackTexts(MaxSections), md \in Metadatas, dc \in Docstrings :
          /\ call' = [op |-> "_simple_chunk", file_content |-> fc,
                      metadata |-> md, docstring_content |-> dc]
          /\ ret' = _simple_chunk(chunker[1], fc, md, dc)
    /\ pc' = "done"
    /\ UNCHANGED <<chunker, processed_chunks, log>>

SpecFallback == InitIdle /\ [][CallSimpleChunk]_vars

---------------------------------------------------------------------------
(* Specification of chunk_python_file called once on a fresh chunker *)

CallChunkPythonFile ==
    /\ pc = "idle"
    /\ \E fc \in FileTexts(MaxBlocks), md \in Metadatas, dc \in Docstrings :
          /\ call' = [op |-> "chunk_python_file", file_content |-> fc,
                      metadata |-> md, docstring_content |-> dc]
          /\ ret' = chunk_python_file(chunker[1], fc, md, dc)
    /\ pc' = "done"
    /\ UNCHANGED <<chunker, processed_chunks, log>>

SpecChunk == InitIdle /\ [][CallChunkPythonFile]_vars

---------------------------------------------------------------------------
(* Specification of chunk_python_file called on files with a block for     *)
(* every kind of chunk                                                      *)

CallChunkKindFile ==
    /\ pc = "idle"
    /\ \E fc \in KindFiles(MaxKindBlocks), md \in Metadatas, dc \in Docstrings :
          /\ call' = [op |-> "chunk_python_file", file_content |-> fc,
                      metadata |-> md, docstring_content |-> dc]
          /\ ret' = chunk_python_file(chunker[1], fc, md, dc)
    /\ pc' = "done"
    /\ UNCHANGED <<chunker, processed_chunks, log>>

SpecKinds == InitIdle /\ [][CallChunkKindFile]_vars

---------------------------------------------------------------------------
(* Specification of chunk_python_file called on files of assignments *)

CallChunkSetupFile ==
    /\ pc = "idle"
    /\ \E fc \in SetupFiles(MaxSetupLines), md \in Metadatas :
          /\ call' = [op |-> "chunk_python_file", file_content |-> fc,
                      metadata |-> md, docstring_content |-> None]
          /\ ret' = chunk_python_file(chunker[1], fc, md, None)
    /\ pc' = "done"
    /\ UNCHANGED <<chunker, processed_chunks, log>>

SpecSetup == InitIdle /\ [][CallChunkSetupFile]_vars

---------------------------------------------------------------------------
(* Specification of the StubExampleExtractor: the Documentation Walker and  *)
(* extract_examples_from_stub, each called once on a stub file              *)

CallExtractAllDocstrings ==
    /\ pc = "idle"
    /\ \E stub \in StubTexts :
          /\ call' = [op |-> "_extract_all_docstrings", stub_content |-> stub]
          /\ ret' = _extract_all_docstrings(stub)
    /\ pc' = "done"
    /\ UNCHANGED <<chunker, processed_chunks, log>>

CallExtractExamples ==
    /\ pc = "idle"
    /\ \E stub \in StubTexts, md \in Metadatas :
          /\ call' = [op |-> "extract_examples_from_stub", stub_content |-> stub,
                      metadata |-> md]
          /\ ret' = extract_examples_from_stub(stub, md)
    /\ pc' = "done"
    /\ UNCHANGED <<chunker, processed_chunks, log>>

SpecExtract == InitIdle /\ [][CallExtractAllDocstrings \/ CallExtractExamples]_vars

---------------------------------------------------------------------------
(* Specification of the Indentation Normalizer called on its own *)

CallDedentCode ==
    /\ pc = "idle"
    /\ \E x \in DedentBlocks(MaxDedentLines) :
          /\ call' = [op |-> "_dedent_code", indented_code |-> x]
          /\ ret' = _dedent_code(x)
    /\ pc' = "done"
    /\ UNCHANGED <<chunker, processed_chunks, log>>

SpecDedent == InitIdle /\ [][CallDedentCode]_vars

---------------------------------------------------------------------------
(* Specification of setup-context recovery: _get_assignment_context called  *)
(* on the matching assignment of a parsed file                              *)

\* the node of the first top-level assignment that matches the allow-list
FirstSetup(tree) ==
    Min({k \in 1..Len(tree) :
            /\ tree[k].parent = 0
            /\ tree[k].type = "Assign"
            /\ _is_circuitpython_assignment(ast_unparse(tree, k))})

CallGetAssignmentContext ==
    /\ pc = "idle"
    /\ \E fc \in ContextFiles(MaxContextLines) :
          /\ call' = [op |-> "_get_assignment_context", file_content |-> fc,
                      assign_node |-> FirstSetup(ast_parse(fc).nodes)]
          /\ ret' = _get_assignment_context(ast_parse(fc).nodes,
                                            FirstSetup(ast_parse(fc).nodes), fc)
    /\ pc' = "done"
    /\ UNCHANGED <<chunker, processed_chunks, log>>

SpecContext == InitIdle /\ [][CallGetAssignmentContext]_vars

\* the same call on files with imports and comments around the assignment
CallGetAssignmentContextScan ==
    /\ pc = "idle"
    /\ \E fc \in ScanFiles(MaxScanLines) :
          /\ call' = [op |-> "_get_assignment_context", file_content |-> fc,
                      assign_node |-> FirstSetup(ast_parse(fc).nodes)]
          /\ ret' = _get_assignment_context(ast_parse(fc).nodes,
                                            FirstSetup(ast_parse(fc).nodes), fc)
    /\ pc' = "done"
    /\ UNCHANGED <<chunker, processed_chunks, log>>

SpecScan == InitIdle /\ [][CallGetAssignmentContextScan]_vars

---------------------------------------------------------------------------
(* Specification of the driver loop of chunker.py (__main__), run with two   *)
(* chunker instances: each step chunks one file on one of them and extends  *)
(* the accumulator with what the call returned.                             *)

MainFiles ==
    {<<>>,
     <<"(">>,
     <<"import ", "board", NL, "led", SP, "=", SP, "board.", "LED", NL,
       "def ", "f", "(", ")", ":", NL, SP, "pass", NL, "f", "(", ")">>,
     <<Run998, NL, "x", "=", "1">>}

MainDocstrings == {None, Some(DocText)}

\* (variant) the accumulator replaced by the chunks of the last call
ExtendReplacing(acc, chunks) == chunks

\* processed_chunks.extend(chunks)
Extend(acc, chunks) == acc \o chunks

\* the arguments as the caller finds them after the call: chunk_python_file
\* builds new mappings ({**metadata, ...}) and new strings and assigns to
\* neither argument
ArgumentsAfterCall(c) == c

InitMain ==
    /\ pc = "loop"
    /\ chunker = <<CircuitPythonChunker, CircuitPythonChunker>>
    /\ call = [op |-> "none"]
    /\ ret = <<>>
    /\ processed_chunks = <<>>
    /\ log = <<>>

ProcessFile ==
    /\ pc = "loop"
    /\ Len(log) < MaxCalls
    /\ \E self \in DOMAIN chunker, fc \in MainFiles, dc \in MainDocstrings :
          /\ call' = [op |-> "chunk_python_file", file_content |-> fc,
                      metadata |-> [source |-> "a.py"], docstring_content |-> dc]
          /\ ret' = chunk_python_file(chunker[self], fc, [source |-> "a.py"], dc)
          /\ chunker' = [chunker EXCEPT ![self] = SelfAfterCall(@)]
          /\ processed_chunks' = Extend(processed_chunks, ret')
          /\ log' = Append(log, [self |-> self, call |-> call', ret |-> ret',
                                 after |-> ArgumentsAfterCall(call')])
    /\ UNCHANGED pc

SpecMain == InitMain /\ [][ProcessFile]_vars

---------------------------------------------------------------------------
(* Vocabulary of the claims *)

ChunkType(c) == c.metadata["chunk_type"]
Types(chunks) == [i \in 1..Len(chunks) |-> ChunkType(chunks[i])]

Returned(op) == pc = "done" /\ call.op = op
Parses(text) == ast_parse(text).ok
TreeOf(text) == ast_parse(text).nodes

\* a is b with some elements left out, order kept
RECURSIVE IsSubseq(_, _)
IsSubseq(a, b) ==
    IF a = <<>> THEN TRUE
    ELSE IF b = <<>> THEN FALSE
    ELSE IF Head(a) = Head(b) THEN IsSubseq(Tail(a), Tail(b))
    ELSE IsSubseq(a, Tail(b))

\* what a chunk says of the declaration it was cut from
Described(c) ==
    <<ChunkType(c),
      IF ChunkType(c) = "function" THEN c.metadata["function_name"] ELSE "">>

\* the top-level declarations of a tree that can have a chunk, in source
\* order: functions, asynchronous functions and classes by name, and the
\* assignments whose re-serialized text has an allow-list keyword
Declared(tree) ==
    LET tops == SelectSeq(BodyOf(tree, 0),
                    LAMBDA k : \/ tree[k].type \in {"FunctionDef", "AsyncFunctionDef",
                                                    "ClassDef"}
                               \/ /\ tree[k].type = "Assign"
                                  /\ \E t \in circuitpython_keywords :
                                         contains(ast_unparse(tree, k), <<t>>))
    IN  [i \in 1..Len(tops) |->
            IF tree[tops[i]].type = "Assign" THEN <<"setup", "">>
            ELSE <<"function", tree[tops[i]].name>>]

\* the top-level function, asynchronous function and class declarations
DeclaredFunctions(tree) ==
    SelectSeq(Declared(tree), LAMBDA d : d[1] = "function")

---------------------------------------------------------------------------
(* C1..C10 *)

\* C1: for a file text that fails to parse, chunk_python_file returns exactly
\* what the Fallback Segmenter returns: every chunk is 'simple', apart from a
\* single leading 'documentation' chunk when a documentation context is
\* supplied, and no 'function', 'setup' or 'complete_example' chunk is mixed in.
C1_FallbackOnly ==
    (Returned("chunk_python_file") /\ ~Parses(call.file_content)) =>
        /\ ret = _simple_chunk(chunker[1], call.file_content, call.metadata,
                               call.docstring_content)
        /\ \A i \in 1..Len(ret) :
              \/ ChunkType(ret[i]) = "simple"
              \/ /\ i = 1
                 /\ ChunkType(ret[i]) = "documentation"
                 /\ Truthy(call.docstring_content)

C1_Witness ==
    /\ Returned("chunk_python_file")
    /\ ~Parses(call.file_content)
    /\ Truthy(call.docstring_content)
    /\ Len(ret) >= 3
    /\ contains(call.file_content, <<"def ">>)

\* C2: for a file that parses, the 'function' chunks correspond one to one, in
\* source order, to the top-level function, asynchronous function and class
\* declarations, each carrying its declaration's name.
C2_EveryDeclarationChunked ==
    (Returned("chunk_python_file") /\ Parses(call.file_content)) =>
        SelectSeq([i \in 1..Len(ret) |-> Described(ret[i])],
                  LAMBDA d : d[1] = "function")
            = DeclaredFunctions(TreeOf(call.file_content))

\* C3: every chunk chunk_python_file returns has non-empty content, on the
\* structural path and on the fallback path, the empty text and texts that
\* begin with blank lines included.
C3_ContentNonEmpty ==
    Returned("chunk_python_file") =>
        \A i \in 1..Len(ret) : ret[i].content # <<>>

\* the class, function and asynchronous function declarations of a tree,
\* nested ones included, that have a documentation string
Documented(tree) ==
    {n \in 1..Len(tree) :
        /\ tree[n].type \in {"ClassDef", "FunctionDef", "AsyncFunctionDef"}
        /\ Truthy(ast_get_docstring(tree, n))}

\* C4: for a parseable source the Documentation Walker returns one record for
\* every class, function and asynchronous function declaration that has a
\* documentation string, nested ones included, whether or not the module has
\* one; a 'module' record is present exactly when the module has one.
C4_EveryDocstringRecorded ==
    (Returned("_extract_all_docstrings") /\ Parses(call.stub_content)) =>
        LET tree == TreeOf(call.stub_content)
            declared == SelectSeq(ret, LAMBDA r : r[2] # <<"module">>)
        IN  /\ Len(declared) = Cardinality(Documented(tree))
            /\ \A n \in Documented(tree) :
                   \E i \in 1..Len(declared) :
                       declared[i][1] = ast_get_docstring(tree, n)[1]
            /\ (\E i \in 1..Len(ret) : ret[i][2] = <<"module">>)
                   <=> Truthy(ast_get_docstring(tree, 0))

\* C5: for a parseable file the documentation chunk, if any, is first, the
\* 'function' and 'setup' chunks follow in the source order of their top-level
\* declarations, and the 'complete_example' chunk, if any, is last.
C5_OutputOrder ==
    (Returned("chunk_python_file") /\ Parses(call.file_content)) =>
        LET n == Len(ret)
            tree == TreeOf(call.file_content)
            tops == BodyOf(tree, 0)
            middle == SelectSeq(ret, LAMBDA c : ChunkType(c) \in {"function", "setup"})
        IN  /\ \A i \in 1..n : ChunkType(ret[i]) = "documentation" => i = 1
            /\ \A i \in 1..n : ChunkType(ret[i]) = "complete_example" => i = n
            /\ \A i \in 1..n : ChunkType(ret[i]) \in
                   {"documentation", "function", "setup", "complete_example"}
            /\ \A i, j \in 1..Len(tops) :
                   i < j => tree[tops[i]].line < tree[tops[j]].line
            /\ IsSubseq([i \in 1..Len(middle) |-> Described(middle[i])], Declared(tree))

C5_Witness ==
    /\ Returned("chunk_python_file")
    /\ Parses(call.file_content)
    /\ Types(ret) = <<"documentation", "setup", "function", "complete_example">>

C7_FallbackTotal ==
    Returned("_simple_chunk") =>
        /\ \A i \in 1..Len(ret) :
              /\ DOMAIN ret[i] = {"content", "metadata"}
              /\ ChunkType(ret[i]) \in {"documentation", "simple"}
        /\ call.file_content # <<>> => Len(ret) >= 1

C7_Witness ==
    /\ Returned("_simple_chunk")
    /\ call.file_content # <<>>
    /\ ~Parses(call.file_content)
    /\ call.docstring_content = None
    /\ Len(ret) = 2

\* the candidate blocks of a stub file: every match of every pattern in every
\* documentation string, normalized, in the order they are tried
RECURSIVE Concat(_)
Concat(seqs) == IF seqs = <<>> THEN <<>> ELSE Head(seqs) \o Concat(Tail(seqs))

Candidates(stub_content) ==
    LET ds == _extract_all_docstrings(stub_content)
        of(d, p) == [j \in 1..Len(findall(PatternNames[p], d)) |->
                        _dedent_code(findall(PatternNames[p], d)[j])]
    IN  Concat([i \in 1..Len(ds) |->
                   Concat([p \in 1..Len(PatternNames) |-> of(ds[i][1], p)])])

\* the number of lines that are neither blank nor comment-only
Substantive(code) ==
    Cardinality({i \in 1..Len(split_nl(code)) :
                    LET l == lstrip(split_nl(code)[i]) IN l # <<>> /\ l[1] # "#"})

\* C8: a candidate block is accepted if and only if at least 2 lines remain
\* after discarding blank and comment-only lines and the block parses on its
\* own; so the examples returned are exactly the candidates with both
\* properties, in order, and the others are dropped.
C8_ValidatorSound ==
    Returned("extract_examples_from_stub") =>
        /\ [i \in 1..Len(ret) |-> ret[i].content]
               = SelectSeq(Candidates(call.stub_content),
                           LAMBDA c : Substantive(c) >= 2 /\ Parses(c))
        /\ \A i \in 1..Len(ret) :
               Substantive(ret[i].content) >= 2 /\ Parses(ret[i].content)

C8_Witness ==
    /\ Returned("extract_examples_from_stub")
    /\ Len(ret) >= 1
    /\ \E i \in 1..Len(Candidates(call.stub_content)) :
           Substantive(Candidates(call.stub_content)[i]) = 1
    /\ \E i \in 1..Len(Candidates(call.stub_content)) :
           /\ Substantive(Candidates(call.stub_content)[i]) >= 2
           /\ ~Parses(Candidates(call.stub_content)[i])

\* C9: the Indentation Normalizer is idempotent, and a block made only of
\* blank lines is returned unchanged.
C9_DedentIdempotent ==
    Returned("_dedent_code") =>
        /\ _dedent_code(ret) = ret
        /\ (\A i \in 1..Len(call.indented_code) : IsSpace(call.indented_code[i]))
               => ret = call.indented_code

C9_Witness ==
    /\ Returned("_dedent_code")
    /\ ret # call.indented_code
    /\ Len(split_nl(ret)) = 3
    /\ \E i \in 1..Len(ret) : ret[i] = SP

\* C10: for a matching assignment found at line t the context block draws on
\* lines t-5 .. t-1 and on lines t+1 .. t+5: no line farther than 5 lines
\* from t is included, the related-setup lines among the 5 before t are, and
\* a qualifying line at t+5 reached without an earlier stop is included.
C10_FiveLinesEachSide ==
    Returned("_get_assignment_context") =>
        LET lines == split_nl(call.file_content)
            t == Min({i \in 1..Len(lines) : contains(lines[i], TargetLine)}) - 1
            last == Len(lines) - 1
            included(i) == \E k \in 1..Len(ret) : ret[k] = lines[i + 1]
        IN  /\ \A k \in 1..Len(ret) :
                   \E i \in Max({0, t - 5})..Min({last, t + 5}) : ret[k] = lines[i + 1]
            /\ \A i \in Max({0, t - 5})..(t - 1) :
                   IsSetupBefore(strip(lines[i + 1])) => included(i)
            /\ ( /\ t + 5 <= last
                 /\ \A i \in (t + 1)..(t + 4) :
                        strip(lines[i + 1]) = <<>> \/ IsSetupAfter(strip(lines[i + 1]))
                 /\ IsSetupAfter(strip(lines[t + 6])) )
                   => included(t + 5)

---------------------------------------------------------------------------
(* C11..C20 *)

\* a text as a commented header: "# Documentation:", then every line of the
\* text behind "# ", then an empty line
CommentedHeader(text) ==
    join(<<NL>>, << <<"#", SP, "Documentation:">> >>
                     \o [i \in 1..Len(split_nl(text)) |-> <<"#", SP>> \o split_nl(text)[i]]
                     \o << <<>>, <<>> >>)

\* C11: for a parseable file exactly one 'complete_example' chunk is emitted
\* when the file text is strictly shorter than 1000 and none otherwise; its
\* content is the full file text, behind the documentation as a commented
\* header when a documentation context is supplied; its
\* includes_documentation flag is true exactly when a documentation chunk was
\* emitted for the call.
C11_WholeFileChunk ==
    (Returned("chunk_python_file") /\ Parses(call.file_content)) =>
        LET whole == SelectSeq(ret, LAMBDA c : ChunkType(c) = "complete_example")
        IN  /\ Len(whole) = IF PyLen(call.file_content) < 1000 THEN 1 ELSE 0
            /\ \A i \in 1..Len(whole) :
                   /\ whole[i].content =
                          IF Truthy(call.docstring_content)
                          THEN CommentedHeader(call.docstring_content[1])
                                   \o call.file_content
                          ELSE call.file_content
                   /\ whole[i].metadata["includes_documentation"] =
                          (\E k \in 1..Len(ret) : ChunkType(ret[k]) = "documentation")

C11_Witness ==
    /\ Returned("chunk_python_file")
    /\ Parses(call.file_content)
    /\ PyLen(call.file_content) = 999
    /\ Truthy(call.docstring_content)
    /\ ChunkType(ret[1]) = "documentation"
    /\ ChunkType(ret[Len(ret)]) = "complete_example"

\* the keys a chunk of the given type adds to the input metadata
SpecificKeys(type) ==
    {"chunk_type"}
        \cup (IF type = "function" THEN {"function_name"} ELSE {})
        \cup (IF type = "complete_example" THEN {"includes_documentation"} ELSE {})

\* the names of the top-level function and class declarations of a file text
TopLevelNames(file_content) ==
    IF Parses(file_content)
    THEN {TreeOf(file_content)[k].name : k \in
              {k \in 1..Len(TreeOf(file_content)) :
                  /\ TreeOf(file_content)[k].parent = 0
                  /\ TreeOf(file_content)[k].type \in {"FunctionDef", "ClassDef"}}}
    ELSE {}

\* C12: every chunk chunk_python_file returns has the input metadata
\* shallow-merged with the chunk's own keys, the chunk's keys winning: its
\* chunk_type is one of the five kinds and its function_name is the
\* declaration's, also when the input carries those keys, and every other
\* input key is carried over unchanged.
C12_MetadataMerged ==
    Returned("chunk_python_file") =>
        \A i \in 1..Len(ret) :
            LET md == ret[i].metadata
                own == SpecificKeys(md["chunk_type"])
            IN  /\ md["chunk_type"] \in {"documentation", "function", "setup",
                                         "complete_example", "simple"}
                /\ DOMAIN md = DOMAIN call.metadata \cup own
                /\ \A k \in DOMAIN call.metadata \ own : md[k] = call.metadata[k]
                /\ md["chunk_type"] = "function" =>
                       md["function_name"] \in TopLevelNames(call.file_content)
                /\ md["chunk_type"] = "complete_example" =>
                       md["includes_documentation"] \in BOOLEAN

C12_Witness ==
    /\ Returned("chunk_python_file")
    /\ call.metadata["source"] = "b.py"
    /\ call.metadata["chunk_type"] = "mine"
    /\ call.metadata["function_name"] = "theirs"
    /\ Types(ret) = <<"documentation", "setup", "function", "complete_example">>
    /\ ret[2].metadata["function_name"] = "theirs"
    /\ ret[3].metadata["function_name"] = "f"

\* the three patterns by name, in their documented order
NamedPatterns == <<"rst_double_colon", "explicit_code_block", "example_section">>

\* every accepted block of a stub file with its provenance: the position of
\* its documentation string, its pattern and its position among the pattern's
\* matches (all 0-based), ordered by the three
Provenance(stub_content) ==
    LET ds == _extract_all_docstrings(stub_content)
        of(i, p) == [j \in 1..Len(findall(NamedPatterns[p], ds[i][1])) |->
                        [content |-> _dedent_code(findall(NamedPatterns[p], ds[i][1])[j]),
                         extraction_method |-> NamedPatterns[p],
                         example_index |-> <<i - 1, "_", j - 1>>]]
    IN  SelectSeq(Concat([i \in 1..Len(ds) |->
                             Concat([p \in 1..Len(NamedPatterns) |-> of(i, p)])]),
                  LAMBDA e : Substantive(e.content) >= 2 /\ Parses(e.content))

\* the position of a pattern name in that order
PatternRank(name) == CHOOSE p \in 1..Len(NamedPatterns) : NamedPatterns[p] = name

\* C13: extract_examples_from_stub applies rst_double_colon,
\* explicit_code_block and example_section to every documentation string in
\* that order and never deduplicates: every accepted match of every pattern is
\* an example of its own, tagged with its pattern, and the examples are
\* ordered by documentation string, then pattern, then match position.
C13_AllPatternsNoDedup ==
    Returned("extract_examples_from_stub") =>
        /\ [k \in 1..Len(ret) |->
               [content |-> ret[k].content,
                extraction_method |-> ret[k].metadata["extraction_method"],
                example_index |-> ret[k].metadata["example_index"]]]
               = Provenance(call.stub_content)
        /\ \A k \in 1..(Len(ret) - 1) :
               LET a == ret[k].metadata
                   b == ret[k + 1].metadata
                   ra == PatternRank(a["extraction_method"])
                   rb == PatternRank(b["extraction_method"])
               IN  \/ a["example_index"][1] < b["example_index"][1]
                   \/ /\ a["example_index"][1] = b["example_index"][1]
                      /\ \/ ra < rb
                         \/ ra = rb /\ a["example_index"][3] < b["example_index"][3]

C13_Witness ==
    /\ Returned("extract_examples_from_stub")
    /\ Len(ret) >= 3
    /\ ret[1].content = ret[2].content
    /\ ret[1].metadata["example_index"] = ret[2].metadata["example_index"]
    /\ ret[1].metadata["extraction_method"] = "rst_double_colon"
    /\ ret[2].metadata["extraction_method"] = "example_section"
    /\ ret[3].metadata["extraction_method"] = "explicit_code_block"
    /\ ret[3].metadata["example_index"][1] > ret[2].metadata["example_index"][1]

\* the top-level assignments of a tree whose re-serialized text has an
\* allow-list keyword, in source order
MatchingAssignments(tree) ==
    SelectSeq(BodyOf(tree, 0),
              LAMBDA k : /\ tree[k].type = "Assign"
                         /\ \E t \in circuitpython_keywords :
                                contains(ast_unparse(tree, k), <<t>>))

\* whether text begins with prefix
StartsWith(text, prefix) ==
    Len(text) >= Len(prefix) /\ SubSeq(text, 1, Len(prefix)) = prefix

\* C14: for a parseable file the 'setup' chunks correspond one to one, in
\* source order, to the top-level assignments whose re-serialized text has an
\* allow-list keyword (the others get none); each one's content is the import
\* list, an empty line and a non-empty context block that contains the
\* assignment's text.
C14_SetupChunkPerMatch ==
    (Returned("chunk_python_file") /\ Parses(call.file_content)) =>
        LET tree == TreeOf(call.file_content)
            matching == MatchingAssignments(tree)
            setups == SelectSeq(ret, LAMBDA c : ChunkType(c) = "setup")
            head == join(<<NL>>, _extract_imports(tree)) \o <<NL, NL>>
        IN  /\ Len(setups) = Len(matching)
            /\ \A i \in 1..Len(setups) :
                   /\ StartsWith(setups[i].content, head)
                   /\ Len(setups[i].content) > Len(head)
                   /\ contains(SubSeq(setups[i].content, Len(head) + 1,
                                      Len(setups[i].content)),
                               ast_unparse(tree, matching[i]))

C14_Witness ==
    /\ Returned("chunk_python_file")
    /\ Parses(call.file_content)
    /\ call.file_content = <<"import ", "board", NL, "x", SP, "=", SP, "1", NL,
                             "pin", "=", "board.", "LED">>
    /\ Types(ret) = <<"setup", "complete_example">>
    /\ ret[1].content = <<"import ", "board", NL, NL,
                          "pin", SP, "=", SP, "board.", "LED">>

\* C15: a 'documentation' chunk is emitted exactly when a non-empty
\* documentation context is supplied, once and as the first chunk, on the
\* structural and on the fallback path; it is the header line, the
\* documentation text verbatim and the listing of the imports, so for a file
\* with no imports its content is the one the Fallback Segmenter produces for
\* the same documentation context.
C15_DocumentationChunk ==
    Returned("chunk_python_file") =>
        LET docs == {i \in 1..Len(ret) : ChunkType(ret[i]) = "documentation"}
            imports == IF Parses(call.file_content)
                       THEN _extract_imports(TreeOf(call.file_content))
                       ELSE <<>>
            head == <<"#", SP, "Documentation", NL, NL>>
        IN  /\ docs = IF Truthy(call.docstring_content) THEN {1} ELSE {}
            /\ Truthy(call.docstring_content) =>
                   /\ StartsWith(ret[1].content, head \o call.docstring_content[1])
                   /\ \A k \in 1..Len(imports) :
                          contains(SubSeq(ret[1].content,
                                          Len(head \o call.docstring_content[1]) + 1,
                                          Len(ret[1].content)),
                                   imports[k])
                   /\ imports = <<>> =>
                          ret[1].content =
                              _simple_chunk(chunker[1], call.file_content, call.metadata,
                                            call.docstring_content)[1].content

RECURSIVE TrimBlankLines(_)
TrimBlankLines(lines) ==
    IF lines = <<>> THEN <<>>
    ELSE IF Head(lines) = <<>> THEN TrimBlankLines(Tail(lines))
    ELSE IF lines[Len(lines)] = <<>> THEN TrimBlankLines(SubSeq(lines, 1, Len(lines) - 1))
    ELSE lines

\* the number of spaces a line begins with
LeadingWidth(line) ==
    Cardinality({i \in 1..Len(line) : \A k \in 1..i : line[k] = SP})

\* C17: for a block with a non-blank line the Indentation Normalizer removes
\* exactly the minimum leading width m of the non-blank lines from every
\* non-blank line and nothing more, makes the blank lines empty, and trims
\* only whole blank lines at the two ends: every non-blank line of the result,
\* the first included, keeps its indentation minus m.
C17_ExactDedent ==
    (Returned("_dedent_code")
         /\ \E i \in 1..Len(call.indented_code) : ~IsSpace(call.indented_code[i])) =>
        LET lines == split_nl(call.indented_code)
            blank(l) == \A i \in 1..Len(l) : IsSpace(l[i])
            m == Min({LeadingWidth(lines[i]) : i \in {i \in 1..Len(lines) : ~blank(lines[i])}})
            cut == [i \in 1..Len(lines) |->
                       IF blank(lines[i]) THEN <<>>
                       ELSE SubSeq(lines[i], m + 1, Len(lines[i]))]
        IN  ret = join(<<NL>>, TrimBlankLines(cut))

\* the position in the source of the declaration a record is about: the
\* statement node that carries the name the record's context ends with
DeclarationOf(tree, record) ==
    CHOOSE n \in 1..Len(tree) :
        /\ tree[n].type \in {"ClassDef", "FunctionDef", "AsyncFunctionDef"}
        /\ tree[n].name = record[2][Len(record[2])]

\* C18: in the Documentation Walker's result for a parseable source the
\* module record, when present, is first, and the declaration records follow
\* in pre-order, which is the order the declarations are written in: a
\* declaration nested in D comes after D and before every declaration written
\* after the end of D.
C18_PreOrder ==
    (Returned("_extract_all_docstrings") /\ Parses(call.stub_content)) =>
        LET tree == TreeOf(call.stub_content)
        IN  /\ \A i \in 1..Len(ret) : ret[i][2] = <<"module">> => i = 1
            /\ \A i, j \in 1..Len(ret) :
                   (i < j /\ ret[i][2] # <<"module">> /\ ret[j][2] # <<"module">>)
                       => DeclarationOf(tree, ret[i]) < DeclarationOf(tree, ret[j])

\* the nearest declaration around node n: 0 when there is none
RECURSIVE EnclosingDeclaration(_, _)
EnclosingDeclaration(tree, n) ==
    LET p == tree[n].parent
    IN  IF p = 0 THEN 0
        ELSE IF tree[p].type \in {"ClassDef", "FunctionDef", "AsyncFunctionDef"} THEN p
        ELSE EnclosingDeclaration(tree, p)

\* C19: a function or asynchronous function record is labeled
\* 'method:<Class>.<name>' exactly when the nearest declaration around the
\* function is a class, also when the function is inside a conditional in the
\* class body, and 'function:<name>' otherwise; a class record is labeled
\* 'class:<name>'.
C19_ContextLabels ==
    (Returned("_extract_all_docstrings") /\ Parses(call.stub_content)) =>
        LET tree == TreeOf(call.stub_content)
        IN  \A i \in 1..Len(ret) :
                ret[i][2] # <<"module">> =>
                    LET n == DeclarationOf(tree, ret[i])
                        d == EnclosingDeclaration(tree, n)
                    IN  ret[i][2] =
                            IF tree[n].type = "ClassDef" THEN <<"class:", tree[n].name>>
                            ELSE IF d # 0 /\ tree[d].type = "ClassDef"
                                 THEN <<"method:", tree[d].name, ".", tree[n].name>>
                                 ELSE <<"function:", tree[n].name>>

\* the 'related setup' predicate as documented: the line is non-blank and is a
\* comment, contains an assignment operator, or is an import
RelatedSetup(line) ==
    LET l == strip(line)
    IN  l # <<>> /\ (l[1] = "#" \/ contains(l, <<"=">>) \/ l[1] = "import ")

\* the forward scan as documented: blank lines skipped, related
\* setup included, stop at the first other line
RECURSIVE ForwardScan(_)
ForwardScan(lines) ==
    IF lines = <<>> THEN <<>>
    ELSE IF RelatedSetup(Head(lines)) THEN <<Head(lines)>> \o ForwardScan(Tail(lines))
    ELSE IF strip(Head(lines)) = <<>> THEN ForwardScan(Tail(lines))
    ELSE <<>>

\* C20: setup-context recovery applies the same 'related setup' predicate in
\* both directions: the backward scan includes exactly the lines of its window
\* that satisfy it; the forward scan skips blank lines, includes every line
\* that satisfies it, an import line included, and stops at the first
\* non-blank line that does not.
C20_SamePredicateBothWays ==
    Returned("_get_assignment_context") =>
        LET lines == split_nl(call.file_content)
            t == Min({i \in 1..Len(lines) : contains(lines[i], TargetLine)})
        IN  ret = SelectSeq(SubSeq(lines, Max({1, t - 5}), t - 1), RelatedSetup)
                      \o <<lines[t]>>
                      \o ForwardScan(SubSeq(lines, t + 1, Min({Len(lines), t + 5})))

---------------------------------------------------------------------------
(* C21..C25 *)

(* Specification of chunk_python_file called on files of declarations, *)
(* imports and references to the declared names                         *)

MaxFunctionBlocks == 3

\* files for the 'function' chunks: declarations without a documentation
\* string, with one of one line and with one of two lines, a declaration that
\* names itself in its body, imports at the top
\* level and inside a block, lines that name a declaration, and a setup
\* assignment
FunctionBlocks ==
    {<<>>,
     <<"import ", "board">>,
     <<"import ", "y">>,
     <<"def ", "g", "(", ")", ":", NL, SP, TQ, "d", TQ>>,
     <<"def ", "h", "(", ")", ":", NL, SP, TQ, "d", NL, SP, "d", TQ>>,
     <<"def ", "f", "(", ")", ":", NL, SP, "f", "(", ")">>,
     <<"class ", "A", ":", NL, SP, "pass">>,
     <<"f", "(", ")">>,
     <<"#", SP, "g">>,
     <<"if ", "x", ":", NL, SP, "import ", "y">>,
     <<"led", SP, "=", SP, "board.", "LED", NL, "g", "(", ")">>}

FunctionFiles(n) ==
    {<<>>} \cup
    UNION {{join(<<NL>>, b) : b \in [1..k -> FunctionBlocks]} : k \in 1..n}

CallChunkFunctionFile ==
    /\ pc = "idle"
    /\ \E fc \in FunctionFiles(MaxFunctionBlocks), md \in Metadatas, dc \in Docstrings :
          /\ call' = [op |-> "chunk_python_file", file_content |-> fc,
                      metadata |-> md, docstring_content |-> dc]
          /\ ret' = chunk_python_file(chunker[1], fc, md, dc)
    /\ pc' = "done"
    /\ UNCHANGED <<chunker, processed_chunks, log>>

SpecFunction == InitIdle /\ [][CallChunkFunctionFile]_vars

\* the 'function' chunks of a result, in order
FunctionChunks(chunks) == SelectSeq(chunks, LAMBDA c : ChunkType(c) = "function")

\* the top-level declarations the chunker cuts 'function' chunks from
ChunkedDeclarations(tree) ==
    SelectSeq(BodyOf(tree, 0), LAMBDA k : tree[k].type \in {"FunctionDef", "ClassDef"})

\* whether statement j is written inside the block of statement k
RECURSIVE IsInside(_, _, _)
IsInside(tree, j, k) ==
    IF j = 0 THEN FALSE
    ELSE tree[j].parent = k \/ IsInside(tree, tree[j].parent, k)

\* the 0-based line on which statement j ends: a string may run over lines
LastLine(tree, j) == tree[j].line + Len(split_nl(tree[j].value)) - 1

\* the 0-based lines of the definition of declaration k: its header line and
\* the lines down to the end of the last statement of its body
DefinitionLines(tree, k) ==
    tree[k].line ..
        Max({tree[k].line} \cup {LastLine(tree, j) : j \in {j \in 1..Len(tree) : IsInside(tree, j, k)}})

\* the 0-based lines outside the definition of declaration k that name it
OutsideReferences(tree, k, lines) ==
    {i \in 0..(Len(lines) - 1) :
        /\ i \notin DefinitionLines(tree, k)
        /\ NameIn(tree[k].name, lines[i + 1])}

\* the usage snippet at the end of a chunk's content: None when there is none
UsageSnippet(content) ==
    LET marks == {p \in 1..Len(content) : content[p] = "Usage example:"}
    IN  IF marks = {} THEN None
        ELSE Some(SubSeq(content, Max(marks) + 2, Len(content)))

\* C21: the 'function' chunk of a top-level declaration named N has a usage
\* snippet exactly when some line of the file outside N's own definition
\* names N; the snippet is then the first such line with the two lines before
\* it and the two lines after it, clipped at the ends of the file. A
\* declaration named only inside its own definition has no snippet.
C21_UsageOutsideDefinition ==
    (Returned("chunk_python_file") /\ Parses(call.file_content)) =>
        LET tree == TreeOf(call.file_content)
            lines == split_nl(call.file_content)
            decls == ChunkedDeclarations(tree)
            chunks == FunctionChunks(ret)
        IN  /\ Len(chunks) = Len(decls)
            /\ \A j \in 1..Len(chunks) :
                   LET refs == OutsideReferences(tree, decls[j], lines)
                   IN  IF refs = {}
                       THEN UsageSnippet(chunks[j].content) = None
                       ELSE UsageSnippet(chunks[j].content) =
                                Some(join(<<NL>>,
                                          SubSeq(lines, Max({0, Min(refs) - 2}) + 1,
                                                 Min({Len(lines), Min(refs) + 3}))))

(* Specification of _simple_chunk called on texts with long, indented and *)
(* many-line sections                                                      *)

MaxLongSections == 3

\* sections for the Fallback Segmenter: empty, short, indented, of two lines,
\* half the size threshold, and longer than the size threshold
SectionPieces ==
    {<<>>, <<"x", "=", "1">>, <<SP, "y">>, <<"a1", NL, "a2">>,
     <<SP, "y", NL, SP, "y">>, <<Run499>>, <<Run998, Run499>>}
SectionSeparators == {<<NL, NL>>, <<NL, SP, NL>>}

SectionTexts(n) ==
    {<<>>} \cup
    UNION {{Glue(p, s) : p \in [1..k -> SectionPieces],
                         s \in [1..(k - 1) -> SectionSeparators]}
           : k \in 1..n}

CallSimpleChunkSections ==
    /\ pc = "idle"
    /\ \E fc \in SectionTexts(MaxLongSections), md \in Metadatas, dc \in Docstrings :
          /\ call' = [op |-> "_simple_chunk", file_content |-> fc,
                      metadata |-> md, docstring_content |-> dc]
          /\ ret' = _simple_chunk(chunker[1], fc, md, dc)
    /\ pc' = "done"
    /\ UNCHANGED <<chunker, processed_chunks, log>>

SpecSections == InitIdle /\ [][CallSimpleChunkSections]_vars

\* the 'simple' chunks of a result, in order
SimpleChunks(chunks) == SelectSeq(chunks, LAMBDA c : ChunkType(c) = "simple")

\* C22: every 'simple' chunk the Fallback Segmenter emits is size-bounded: the
\* length of its content does not exceed the size threshold, whatever the
\* input text, a text with one section longer than the threshold included.
C22_SimpleChunkBounded ==
    Returned("_simple_chunk") =>
        \A i \in 1..Len(ret) :
            ChunkType(ret[i]) = "simple"
                => PyLen(ret[i].content) <= chunker[1].chunk_size_limit

(* chunker_v0.py: the chunker without the documentation context. Its      *)
(* _extract_imports, _create_assignment_chunk, _is_circuitpython_assignment, *)
(* _get_assignment_context and _find_usage_example are the same text as in *)
(* chunker.py and use the definitions above.                               *)

\* (variant) a function chunk that leaves the usage snippet out
v0_create_function_chunk_bare(tree, func_node, file_content, imports) ==
    LET func_code == ast_unparse(tree, func_node)
        doc == ast_get_docstring(tree, func_node)
        description == IF Truthy(doc) THEN <<"#", SP>> \o doc[1] \o <<NL>> ELSE <<>>
    IN  join(<<NL>>, imports) \o <<NL, NL>> \o description \o func_code

\* chunker_v0._create_function_chunk(func_node, file_content, imports)
v0_create_function_chunk(tree, func_node, file_content, imports) ==
    LET func_code == ast_unparse(tree, func_node)
        doc == ast_get_docstring(tree, func_node)
        description == IF Truthy(doc) THEN <<"#", SP>> \o doc[1] \o <<NL>> ELSE <<>>
        chunk == join(<<NL>>, imports) \o <<NL, NL>> \o description \o func_code
        usage_example == _find_usage_example(tree[func_node].name, file_content)
    IN  IF Truthy(usage_example)
        THEN chunk \o <<NL, NL, "#", SP, "Usage example:", NL>> \o usage_example[1]
        ELSE chunk

\* the for loop of chunker_v0.chunk_python_file over tree.body
RECURSIVE v0_chunk_body(_, _, _, _, _)
v0_chunk_body(tree, body, file_content, metadata, imports) ==
    IF body = <<>> THEN <<>>
    ELSE LET node == Head(body)
             rest == v0_chunk_body(tree, Tail(body), file_content, metadata, imports)
         IN  IF tree[node].type \in {"FunctionDef", "ClassDef"}
             THEN LET chunk == v0_create_function_chunk(tree, node, file_content, imports)
                  IN  IF chunk # <<>>
                      THEN <<Chunk(chunk, With(With(metadata, "chunk_type", "function"),
                                               "function_name", tree[node].name))>>
                               \o rest
                      ELSE rest
             ELSE IF tree[node].type = "Assign"
             THEN LET chunk == _create_assignment_chunk(tree, node, file_content, imports)
                  IN  IF Truthy(chunk)
                      THEN <<Chunk(chunk[1], With(metadata, "chunk_type", "setup"))>>
                               \o rest
                      ELSE rest
             ELSE rest

\* chunker_v0._simple_chunk(file_content, metadata)
v0_simple_chunk(self, file_content, metadata) ==
    LastChunk(simple_pack(self, re_split_blank(file_content), metadata, <<>>, <<>>),
              metadata)

\* chunker_v0.chunk_python_file(file_content, metadata)
v0_chunk_python_file(self, file_content, metadata) ==
    LET parsed == ast_parse(file_content)
        imports == _extract_imports(parsed.nodes)
        body == v0_chunk_body(parsed.nodes, BodyOf(parsed.nodes, 0), file_content,
                              metadata, imports)
        whole == IF PyLen(file_content) < self.chunk_size_limit
                 THEN <<Chunk(file_content, With(metadata, "chunk_type", "complete_example"))>>
                 ELSE <<>>
    IN  IF parsed.ok THEN body \o whole
        ELSE v0_simple_chunk(self, file_content, metadata)

(* Specification of the two variants of chunk_python_file called on the *)
(* same file, chunker.py's without a documentation context               *)

\* metadata as the programs build it and with the key the newer variant adds
VariantMetadatas == Metadatas \cup {[source |-> "c.py", includes_documentation |-> TRUE]}

CallBothVariants ==
    /\ pc = "idle"
    /\ \E fc \in FileTexts(MaxBlocks), md \in VariantMetadatas :
          /\ call' = [op |-> "chunk_python_file, chunker_v0.chunk_python_file",
                      file_content |-> fc, metadata |-> md, docstring_content |-> None]
          /\ ret' = [chunker |-> chunk_python_file(chunker[1], fc, md, None),
                     chunker_v0 |-> v0_chunk_python_file(CircuitPythonChunker, fc, md)]
    /\ pc' = "done"
    /\ UNCHANGED <<chunker, processed_chunks, log>>

SpecVariants == InitIdle /\ [][CallBothVariants]_vars

\* a function without the key k
Without(md, k) == [key \in DOMAIN md \ {k} |-> md[key]]

\* C23: with the documentation context absent, chunker.py's chunk_python_file
\* returns the same sequence as chunker_v0.py's for every file text and
\* metadata: the same number of chunks, in the same order, with the same
\* content, chunk_type and function_name; the one difference is the key
\* includes_documentation = false on the 'complete_example' chunk.
C23_VariantsAgree ==
    Returned("chunk_python_file, chunker_v0.chunk_python_file") =>
        /\ Len(ret.chunker) = Len(ret.chunker_v0)
        /\ \A i \in 1..Len(ret.chunker) :
               LET new == ret.chunker[i]
                   old == ret.chunker_v0[i]
               IN  /\ new.content = old.content
                   /\ ChunkType(new) = ChunkType(old)
                   /\ Described(new) = Described(old)
                   /\ IF ChunkType(new) = "complete_example"
                      THEN /\ new.metadata["includes_documentation"] = FALSE
                           /\ Without(new.metadata, "includes_documentation")
                                  = Without(old.metadata, "includes_documentation")
                      ELSE new.metadata = old.metadata

C23_Witness ==
    /\ Returned("chunk_python_file, chunker_v0.chunk_python_file")
    /\ Types(ret.chunker) = <<"setup", "function", "complete_example">>
    /\ Types(ret.chunker_v0) = <<"setup", "function", "complete_example">>
    /\ UsageSnippet(ret.chunker_v0[2].content) # None
    /\ "includes_documentation" \notin DOMAIN ret.chunker_v0[3].metadata

\* the re-serialized top-level import statements of a tree, in source order
TopLevelImports(tree) ==
    LET tops == SelectSeq(BodyOf(tree, 0), LAMBDA k : tree[k].type = "Import")
    IN  [i \in 1..Len(tops) |-> ast_unparse(tree, tops[i])]

\* the context note of a documentation context: nothing when it is absent or
\* empty, otherwise a note made of its first paragraph
ContextNote(docstring_content) ==
    IF Truthy(docstring_content)
    THEN <<"#", SP, "Context:", SP>> \o FirstPara(docstring_content[1]) \o <<NL, NL>>
    ELSE <<>>

\* whether the text is the documentation string doc written as a comment:
\* line by line, each line a comment that ends with the line of doc
IsCommentOf(text, doc) ==
    LET lines == split_nl(text)
        of == split_nl(doc)
    IN  /\ Len(lines) = Len(of) + 1
        /\ lines[Len(lines)] = <<>>
        /\ \A i \in 1..Len(of) :
               /\ StartsWith(lines[i], <<"#">>)
               /\ Len(lines[i]) > Len(of[i])
               /\ SubSeq(lines[i], Len(lines[i]) - Len(of[i]) + 1, Len(lines[i])) = of[i]

\* the usage part of a chunk for the name: nothing when no snippet is found
UsagePart(name, file_content) ==
    IF Truthy(_find_usage_example(name, file_content))
    THEN <<NL, NL, "#", SP, "Usage example:", NL>>
             \o _find_usage_example(name, file_content)[1]
    ELSE <<>>

\* C24: every 'function' chunk and every 'setup' chunk begins with the
\* complete list of the file's top-level import statements, in source order
\* and one per line, the same for every chunk of the call and wherever in the
\* file the imports are written; a 'function' chunk is, in this order: the
\* imports, the context note (only with a documentation context, made of its
\* first paragraph), the declaration's documentation string as a comment
\* (only when it has one), the declaration's re-serialized source, and the
\* usage snippet (only when one is found).
C24_ImportsFirstPartsInOrder ==
    (Returned("chunk_python_file") /\ Parses(call.file_content)) =>
        LET tree == TreeOf(call.file_content)
            head == join(<<NL>>, TopLevelImports(tree)) \o <<NL, NL>>
                        \o ContextNote(call.docstring_content)
            decls == ChunkedDeclarations(tree)
            chunks == FunctionChunks(ret)
        IN  /\ \A i \in 1..Len(ret) :
                   ChunkType(ret[i]) \in {"function", "setup"}
                       => StartsWith(ret[i].content,
                                     join(<<NL>>, TopLevelImports(tree)) \o <<NL, NL>>)
            /\ Len(chunks) = Len(decls)
            /\ \A j \in 1..Len(chunks) :
                   LET content == chunks[j].content
                       tail == ast_unparse(tree, decls[j])
                                   \o UsagePart(tree[decls[j]].name, call.file_content)
                       doc == ast_get_docstring(tree, decls[j])
                       between == SubSeq(content, Len(head) + 1, Len(content) - Len(tail))
                   IN  /\ Len(content) >= Len(head) + Len(tail)
                       /\ StartsWith(content, head)
                       /\ SubSeq(content, Len(content) - Len(tail) + 1, Len(content)) = tail
                       /\ IF Truthy(doc) THEN IsCommentOf(between, doc[1])
                          ELSE between = <<>>

\* the blank-line-delimited sections of a text that are not blank
NonBlankSections(text) ==
    SelectSeq(re_split_blank(text), LAMBDA section : strip(section) # <<>>)

\* the sections of the chunks, chunk after chunk
RECURSIVE SectionsAcross(_)
SectionsAcross(chunks) ==
    IF chunks = <<>> THEN <<>>
    ELSE NonBlankSections(Head(chunks).content) \o SectionsAcross(Tail(chunks))

====
